---------------------------- MODULE Spec2Model ----------------------------
(***************************************************************************)
(* MapQuotey: the measurement engine (lib/calculations), the drawing and   *)
(* AI-detection handlers that store its results, and the dashboard state.  *)
(*                                                                         *)
(* JavaScript numbers are modelled as decimal fixed point, every value a   *)
(* 32-bit integer:                                                         *)
(*   Deg  degrees of latitude/longitude, in units of 1e-7 degree           *)
(*   Fx   radians and pure ratios (sin, cos, a, c), in units of 1e-8       *)
(*   Num  metres, square metres, feet, square feet, in units of 1e-4       *)
(* Products are formed exactly (two limbs) and truncated toward zero to    *)
(* the scale of the result, so rounding order is observable.  Sums are     *)
(* exact: the dependence of an IEEE-754 sum on the order of its terms      *)
(* (last-bit differences) is not represented.                              *)
(***************************************************************************)
EXTENDS Integers, Sequences, FiniteSets, TLC

VARIABLES
    input,            \* engine call: the point list handed to the engine
    call,             \* engine call: which function ran ("none" before any call)
    ret,              \* engine call: what it returned
    thrown,           \* engine call: it threw a TypeError instead of returning
    log,              \* engine calls: what each call so far was given and gave
    areas,            \* Dashboard: the DrawnArea list
    renderedAreas,    \* the areas of the Dashboard's last render, which the
                      \* callbacks of MapView and AutoDetect close over
    isDrawing,        \* Dashboard: the drawing manager is mounted
    drawingMode,      \* Dashboard: "area" (polygon tool) or "trail" (polyline tool)
    result,           \* AutoDetect: the detected features, <<>> when null
    selectedFeatures, \* AutoDetect: the selected feature indexes (0-based)
    clock,            \* Date.now(): ids made from it are never reused
    isMetric,         \* PricingPanel: the unit toggle
    mobilizationFee,  \* Dashboard: the mobilization fee (Num)
    isAuthenticated,  \* AuthProvider: the useState flag
    isLoading,        \* AuthProvider: TRUE until the mount effect has run
    authStored,       \* localStorage["mapquotey_auth"], Null when absent
    pin,              \* LoginForm: the four digit boxes
    timers,           \* LoginForm: the handleSubmit calls setTimeout has pending
    event,            \* the last event handled and its outcome
    projects,         \* ProjectsPanel: the saved project list
    activeProjectId,  \* ProjectsPanel: <<id>> of the active project, <<>> for null
    queued,           \* ProjectsPanel: <<list>> a setProjects of an effect waits with
    storedProjects,   \* localStorage["mapquotey_projects"]: <<text>>, <<>> when absent
    photos,           \* Dashboard: the site photos
    selectedPhoto,    \* PhotoUpload: <<photo>> shown enlarged, <<>> for null
    selections        \* PhotoUpload: the handleFileSelect calls and their readers

engineVars == <<input, call, ret, thrown, log>>
appVars == <<areas, renderedAreas, isDrawing, drawingMode, result,
            selectedFeatures, clock>>
panelVars == <<isMetric, mobilizationFee>>
authVars == <<isAuthenticated, isLoading, authStored, pin, timers, event>>
projectVars == <<projects, activeProjectId, queued, storedProjects>>
photoVars == <<photos, selectedPhoto, selections>>
vars == <<input, call, ret, thrown, log, areas, renderedAreas, isDrawing, drawingMode, result,
          selectedFeatures, clock, isMetric, mobilizationFee, isAuthenticated,
          isLoading, authStored, pin, timers, event, projects,
          activeProjectId, queued, storedProjects, photos, selectedPhoto,
          selections>>

---------------------------------------------------------------------------
(* Fixed-point arithmetic                                                  *)

DegOne == 10^7
FxOne  == 10^8
NumOne == 10^4
Limb   == 10^4

Abs(x) == IF x < 0 THEN -x ELSE x
Sgn(x) == IF x < 0 THEN -1 ELSE 1

\* a \div n truncated toward zero (n > 0)
TDiv(a, n) == Sgn(a) * (Abs(a) \div n)

\* The exact product of a, b >= 0 as <<hi, lo>> with a*b = hi * 10^8 + lo.
WMul(a, b) ==
    LET a1 == a \div Limb
        a0 == a % Limb
        b1 == b \div Limb
        b0 == b % Limb
        m1 == a1 * b0
        m2 == a0 * b1
        ll == a0 * b0
        c  == (m1 % Limb) + (m2 % Limb) + (ll \div Limb)
    IN  <<a1 * b1 + (m1 \div Limb) + (m2 \div Limb) + (c \div Limb),
          (c % Limb) * Limb + (ll % Limb)>>

WAdd(u, v) == <<u[1] + v[1] + ((u[2] + v[2]) \div FxOne), (u[2] + v[2]) % FxOne>>
WSub(u, v) == <<u[1] - v[1] + ((u[2] - v[2]) \div FxOne), (u[2] - v[2]) % FxOne>>
WLeq(u, v) == u[1] < v[1] \/ (u[1] = v[1] /\ u[2] <= v[2])

\* a * b / 10^k truncated toward zero, 0 <= k <= 8
MulScaled(a, b, k) ==
    LET w == WMul(Abs(a), Abs(b))
    IN  Sgn(a) * Sgn(b) * (w[1] * 10^(8 - k) + (w[2] \div 10^k))

\* Fx * Fx -> Fx
MulFx(a, b) == MulScaled(a, b, 8)

\* (w * c) / 10^8 for a two-limb w and an Fx c >= 0, as two limbs
WMulFx(w, c) == WAdd(WMul(w[1], c), <<0, WMul(w[2], c)[1]>>)

---------------------------------------------------------------------------
(* Math.PI, Math.sin, Math.cos, Math.sqrt, Math.atan2                      *)

PI == 314159265

\* x - x^3/3! + x^5/5! - ...  (term = x, n = 2) and
\* 1 - x^2/2! + x^4/4! - ...  (term = 1, n = 1): summed until a term is 0
RECURSIVE Series(_, _, _)
Series(x2, term, n) ==
    IF term = 0 THEN 0
    ELSE term + Series(x2, -TDiv(MulFx(term, x2), n * (n + 1)), n + 2)

MathSin(x) == Series(MulFx(x, x), x, 2)
\* Beyond a right angle, up to a straight one: cos(x) = -cos(pi - |x|)
MathCos(x) ==
    IF Abs(x) > PI \div 2
    THEN -Series(MulFx(PI - Abs(x), PI - Abs(x)), FxOne, 1)
    ELSE Series(MulFx(x, x), FxOne, 1)

\* floor(sqrt(w)) of a two-limb w (units 1e-16), in Fx
RECURSIVE SqrtSearch(_, _, _)
SqrtSearch(w, lo, hi) ==
    IF lo >= hi THEN lo
    ELSE LET mid == (lo + hi + 1) \div 2
         IN  IF WLeq(WMul(mid, mid), w) THEN SqrtSearch(w, mid, hi)
             ELSE SqrtSearch(w, lo, mid - 1)

MathSqrt(w) == SqrtSearch(w, 0, 2 * FxOne)

\* floor(y * 10^8 / x) for 0 <= y <= x, x > 0
RECURSIVE DivSearch(_, _, _, _)
DivSearch(y, x, lo, hi) ==
    IF lo >= hi THEN lo
    ELSE LET mid == (lo + hi + 1) \div 2
         IN  IF WLeq(WMul(mid, x), <<y, 0>>) THEN DivSearch(y, x, mid, hi)
             ELSE DivSearch(y, x, lo, mid - 1)

DivFx(y, x) == DivSearch(y, x, 0, FxOne)

\* u - u^3/3 + u^5/5 - ...  for 0 <= u <= tan(pi/8)
RECURSIVE AtanSeries(_, _, _, _)
AtanSeries(u2, p, n, sign) ==
    IF p = 0 THEN 0
    ELSE sign * (p \div n) + AtanSeries(u2, MulFx(p, u2), n + 2, -sign)

\* atan(t) for 0 <= t <= 1: above tan(pi/8), pi/4 - atan((1 - t) / (1 + t))
Atan01(t) ==
    IF MulFx(t, t) + 2 * t > FxOne
    THEN LET u == DivFx(FxOne - t, FxOne + t)
         IN  (PI \div 4) - AtanSeries(MulFx(u, u), u, 1, 1)
    ELSE AtanSeries(MulFx(t, t), t, 1, 1)

\* Math.atan2(y, x) for y, x >= 0, not both 0
MathAtan2(y, x) ==
    IF y = 0 THEN 0
    ELSE IF y <= x THEN Atan01(DivFx(y, x))
    ELSE (PI \div 2) - Atan01(DivFx(x, y))

---------------------------------------------------------------------------
(* lib/calculations                                                        *)

EARTH_RADIUS == 6371000

\* degrees * (Math.PI / 180): Deg -> Fx
toRadians(degrees) == MulScaled(degrees, PI \div 180, 7)

\* Variant: the spherical law of cosines in place of the haversine formula,
\* acos(v) taken as 2 * atan2(sqrt(1 - v), sqrt(1 + v))
calculateDistanceLawOfCosines(point1, point2) ==
    LET lat1 == toRadians(point1.lat)
        lat2 == toRadians(point2.lat)
        deltaLng == toRadians(point2.lng - point1.lng)
        sinLng == MathSin(TDiv(deltaLng, 2))
        cosLng == FxOne - 2 * MulFx(sinLng, sinLng)
        sum == MulFx(MathSin(lat1), MathSin(lat2))
                   + MulFx(MulFx(MathCos(lat1), MathCos(lat2)), cosLng)
        v == IF sum > FxOne THEN FxOne ELSE IF sum < -FxOne THEN -FxOne ELSE sum
        c == 2 * MathAtan2(MathSqrt(<<FxOne - v, 0>>), MathSqrt(<<FxOne + v, 0>>))
    IN  MulScaled(EARTH_RADIUS, c, 4)

\* Variant: lat1 used where lat2 belongs, cos(lat1) * cos(lat1)
calculateDistanceOneLatitude(point1, point2) ==
    LET lat1 == toRadians(point1.lat)
        deltaLat == toRadians(point2.lat - point1.lat)
        deltaLng == toRadians(point2.lng - point1.lng)
        sinLat == Abs(MathSin(TDiv(deltaLat, 2)))
        sinLng == Abs(MathSin(TDiv(deltaLng, 2)))
        a == WAdd(WMul(sinLat, sinLat),
                  WMulFx(WMul(sinLng, sinLng), MulFx(MathCos(lat1), MathCos(lat1))))
        c == 2 * MathAtan2(MathSqrt(a), MathSqrt(WSub(<<FxOne, 0>>, a)))
    IN  MulScaled(EARTH_RADIUS, c, 4)

\* Variant: deltaLat taken as point2.lat - point2.lat
calculateDistanceNoDeltaLat(point1, point2) ==
    LET lat1 == toRadians(point1.lat)
        lat2 == toRadians(point2.lat)
        deltaLng == toRadians(point2.lng - point1.lng)
        sinLng == Abs(MathSin(TDiv(deltaLng, 2)))
        a == WMulFx(WMul(sinLng, sinLng), MulFx(MathCos(lat1), MathCos(lat2)))
        c == 2 * MathAtan2(MathSqrt(a), MathSqrt(WSub(<<FxOne, 0>>, a)))
    IN  MulScaled(EARTH_RADIUS, c, 4)

\* Variant: the coordinates read in the order longitude, latitude
calculateDistanceLngLat(point1, point2) ==
    LET lat1 == toRadians(point1.lng)
        lat2 == toRadians(point2.lng)
        deltaLat == toRadians(point2.lng - point1.lng)
        deltaLng == toRadians(point2.lat - point1.lat)
        sinLat == Abs(MathSin(TDiv(deltaLat, 2)))
        sinLng == Abs(MathSin(TDiv(deltaLng, 2)))
        a == WAdd(WMul(sinLat, sinLat),
                  WMulFx(WMul(sinLng, sinLng), MulFx(MathCos(lat1), MathCos(lat2))))
        c == 2 * MathAtan2(MathSqrt(a), MathSqrt(WSub(<<FxOne, 0>>, a)))
    IN  MulScaled(EARTH_RADIUS, c, 4)

\* Haversine distance in metres (Num). a is kept in two limbs (units 1e-16)
\* so that the squares of small sines are not lost.
calculateDistance(point1, point2) ==
    LET lat1 == toRadians(point1.lat)
        lat2 == toRadians(point2.lat)
        deltaLat == toRadians(point2.lat - point1.lat)
        deltaLng == toRadians(point2.lng - point1.lng)
        sinLat == Abs(MathSin(TDiv(deltaLat, 2)))
        sinLng == Abs(MathSin(TDiv(deltaLng, 2)))
        a == WAdd(WMul(sinLat, sinLat),
                  WMulFx(WMul(sinLng, sinLng), MulFx(MathCos(lat1), MathCos(lat2))))
        c == 2 * MathAtan2(MathSqrt(a), MathSqrt(WSub(<<FxOne, 0>>, a)))
    IN  MulScaled(EARTH_RADIUS, c, 4)

defaultCenter == [lat |-> -378136000, lng |-> 1449631000]

GridStep == 899

Offset(dLat, dLng) ==
    [lat |-> defaultCenter.lat + dLat * GridStep,
     lng |-> defaultCenter.lng + dLng * GridStep]

SamplePoints == {Offset(0, 0), Offset(0, 3), Offset(2, 3), Offset(2, 0), Offset(1, 0)}

\* calculateDistance over the points the model draws from, evaluated once
KnownPoints == SamplePoints \cup {Offset(1, 3)}

DistanceTable ==
    {<<p, q, calculateDistance(p, q)>> : p \in KnownPoints, q \in KnownPoints}

Distance(point1, point2) ==
    IF point1 \in KnownPoints /\ point2 \in KnownPoints
    THEN (CHOOSE t \in DistanceTable : t[1] = point1 /\ t[2] = point2)[3]
    ELSE calculateDistance(point1, point2)

\* points[i] with the source's 0-based index
At(points, i) == points[i + 1]

\* Variant: the index after i without the wrap to 0
NextIndexNoWrap(i, length) == i + 1

\* (i + 1) % points.length
NextIndex(i, length) == (i + 1) % length

\* points[index] is undefined outside the array, and reading .lat or .x of
\* undefined throws a TypeError
IsUndefined(points, index) == index < 0 \/ index >= Len(points)

\* The loops of calculatePerimeter and calculatePolygonArea read points[i]
\* and points[(i + 1) % length] for every i
LoopThrows(points) ==
    \E i \in 0..(Len(points) - 1) :
        IsUndefined(points, i) \/ IsUndefined(points, NextIndex(i, Len(points)))

RECURSIVE PerimeterLoop(_, _, _)
PerimeterLoop(points, i, perimeter) ==
    IF i >= Len(points) THEN perimeter
    ELSE LET nextIndex == NextIndex(i, Len(points))
         IN  PerimeterLoop(points, i + 1,
                 perimeter + Distance(At(points, i), At(points, nextIndex)))

\* Variant: the path left open, without the edge from the last point back to
\* the first
calculatePerimeterOpenPath(points) ==
    IF Len(points) < 2 THEN 0
    ELSE PerimeterLoop(points, 0, 0)
             - Distance(At(points, Len(points) - 1), At(points, 0))

\* Variant: too few points answered with -1 instead of 0
calculatePerimeterOrMinusOne(points) ==
    IF Len(points) < 2 THEN -1 ELSE PerimeterLoop(points, 0, 0)

calculatePerimeter(points) ==
    IF Len(points) < 2 THEN 0 ELSE PerimeterLoop(points, 0, 0)

\* calculatePerimeter ends in a TypeError
calculatePerimeterThrows(points) == Len(points) >= 2 /\ LoopThrows(points)

\* xs.reduce((sum, v) => sum + v, 0) / xs.length, floored to the Deg unit;
\* summed as quotients and remainders of the length to stay in 32 bits
RECURSIVE SumQuot(_, _)
SumQuot(xs, n) == IF xs = <<>> THEN 0 ELSE (Head(xs) \div n) + SumQuot(Tail(xs), n)

RECURSIVE SumRem(_, _)
SumRem(xs, n) == IF xs = <<>> THEN 0 ELSE (Head(xs) % n) + SumRem(Tail(xs), n)

Mean(xs) == SumQuot(xs, Len(xs)) + (SumRem(xs, Len(xs)) \div Len(xs))

metersPerDegreeLat == 111320

\* Variant: the shoelace sum without the term that wraps from the last point
\* to the first
RECURSIVE ShoelaceLoopNoWrap(_, _, _)
ShoelaceLoopNoWrap(localPoints, i, area) ==
    IF i + 1 >= Len(localPoints) THEN area
    ELSE LET pi == At(localPoints, i)
             pj == At(localPoints, i + 1)
         IN  ShoelaceLoopNoWrap(localPoints, i + 1,
                 area + MulScaled(pi.x, pj.y, 4) - MulScaled(pj.x, pi.y, 4))

\* Variant: the second product added where it is subtracted
RECURSIVE ShoelaceLoopAdding(_, _, _)
ShoelaceLoopAdding(localPoints, i, area) ==
    IF i >= Len(localPoints) THEN area
    ELSE LET j == (i + 1) % Len(localPoints)
             pi == At(localPoints, i)
             pj == At(localPoints, j)
         IN  ShoelaceLoopAdding(localPoints, i + 1,
                 area + MulScaled(pi.x, pj.y, 4) + MulScaled(pj.x, pi.y, 4))

RECURSIVE ShoelaceLoop(_, _, _)
ShoelaceLoop(localPoints, i, area) ==
    IF i >= Len(localPoints) THEN area
    ELSE LET j == NextIndex(i, Len(localPoints))
             pi == At(localPoints, i)
             pj == At(localPoints, j)
         IN  ShoelaceLoop(localPoints, i + 1,
                 area + MulScaled(pi.x, pj.y, 4) - MulScaled(pj.x, pi.y, 4))

\* Variant: a degree of longitude taken as long as a degree of latitude
ShoelaceSumNoCosine(points) ==
         LET centroid == [lat |-> Mean([k \in 1..Len(points) |-> points[k].lat]),
                          lng |-> Mean([k \in 1..Len(points) |-> points[k].lng])]
             localPoints ==
                 [k \in 1..Len(points) |->
                     [x |-> MulScaled(points[k].lng - centroid.lng,
                                      metersPerDegreeLat * NumOne, 7),
                      y |-> MulScaled(points[k].lat - centroid.lat,
                                      metersPerDegreeLat * NumOne, 7)]]
         IN  ShoelaceLoop(localPoints, 0, 0)

\* The shoelace sum of the points projected on the plane tangent at their
\* centroid, before Math.abs and the halving
ShoelaceSum(points) ==
         LET centroid == [lat |-> Mean([k \in 1..Len(points) |-> points[k].lat]),
                          lng |-> Mean([k \in 1..Len(points) |-> points[k].lng])]
             metersPerDegreeLng ==
                 MulScaled(metersPerDegreeLat * NumOne,
                           MathCos(toRadians(centroid.lat)), 8)
             localPoints ==
                 [k \in 1..Len(points) |->
                     [x |-> MulScaled(points[k].lng - centroid.lng,
                                      metersPerDegreeLng, 7),
                      y |-> MulScaled(points[k].lat - centroid.lat,
                                      metersPerDegreeLat * NumOne, 7)]]
         IN  ShoelaceLoop(localPoints, 0, 0)

\* Variant: the signed area, Math.abs left out
calculatePolygonAreaSigned(points) ==
    IF Len(points) < 3 THEN 0 ELSE TDiv(ShoelaceSum(points), 2)

\* Variant: too few points answered with -1 instead of 0
calculatePolygonAreaOrMinusOne(points) ==
    IF Len(points) < 3 THEN -1 ELSE Abs(ShoelaceSum(points)) \div 2

\* Variant: the shoelace sum not halved
calculatePolygonAreaNotHalved(points) ==
    IF Len(points) < 3 THEN 0 ELSE Abs(ShoelaceSum(points))

calculatePolygonArea(points) ==
    IF Len(points) < 3 THEN 0 ELSE Abs(ShoelaceSum(points)) \div 2

\* calculatePolygonArea ends in a TypeError
calculatePolygonAreaThrows(points) == Len(points) >= 3 /\ LoopThrows(points)

SQFT_PER_SQM  == 107639
FEET_PER_METER == 328084

\* sqm * 10.7639
sqmToSqft(sqm) == MulScaled(sqm, SQFT_PER_SQM, 4)

\* meters * 3.28084
metersToFeet(meters) == MulScaled(meters, FEET_PER_METER, 5)

\* Variant: Math.floor in place of Math.round
Floor2(v) == (v \div 100) * 100

\* Math.round(v * 100) / 100: half up, Num -> Num
Round2(v) == ((v + 50) \div 100) * 100

\* Variant: the imperial fields converted from the rounded metric fields
getMeasurementsFromRounded(points) ==
    LET area == Round2(calculatePolygonArea(points))
        perimeter == Round2(calculatePerimeter(points))
    IN  [area |-> area,
         perimeter |-> perimeter,
         areaFt |-> Round2(sqmToSqft(area)),
         perimeterFt |-> Round2(metersToFeet(perimeter))]

\* Variant: the metric fields returned as computed, not rounded
getMeasurementsRawMetric(points) ==
    LET area == calculatePolygonArea(points)
        perimeter == calculatePerimeter(points)
    IN  [area |-> area,
         perimeter |-> perimeter,
         areaFt |-> Round2(sqmToSqft(area)),
         perimeterFt |-> Round2(metersToFeet(perimeter))]

getMeasurements(points) ==
    LET area == calculatePolygonArea(points)
        perimeter == calculatePerimeter(points)
    IN  [area |-> Round2(area),
         perimeter |-> Round2(perimeter),
         areaFt |-> Round2(sqmToSqft(area)),
         perimeterFt |-> Round2(metersToFeet(perimeter))]

\* Strings are sequences of one-character strings
DigitChars == <<"0", "1", "2", "3", "4", "5", "6", "7", "8", "9">>

RECURSIVE IntegerDigits(_)
IntegerDigits(n) ==
    IF n < 10 THEN <<DigitChars[n + 1]>>
    ELSE IntegerDigits(n \div 10) \o <<DigitChars[(n % 10) + 1]>>

\* (value / divisor).toFixed(2) of a Num value, unitsPerHundredth being the
\* Num units that make 0.01 of the quotient: rounded to the nearest
\* hundredth, then sign, integer digits, point and two decimals
toFixed(value, unitsPerHundredth) ==
    LET hundredths == (2 * Abs(value) + unitsPerHundredth) \div (2 * unitsPerHundredth)
    IN  (IF value < 0 THEN <<"-">> ELSE <<>>)
            \o IntegerDigits(hundredths \div 100)
            \o <<".", DigitChars[((hundredths \div 10) % 10) + 1],
                  DigitChars[(hundredths % 10) + 1]>>

METERS_PER_KM == 1000
FEET_PER_MILE == 5280

\* Variant: the larger unit only above the threshold, > for >=
formatDistanceAboveThreshold(distance, metric) ==
    IF metric
    THEN IF distance > METERS_PER_KM * NumOne
         THEN toFixed(distance, METERS_PER_KM * 100) \o <<" ", "k", "m">>
         ELSE toFixed(distance, 100) \o <<" ", "m">>
    ELSE IF distance > FEET_PER_MILE * NumOne
         THEN toFixed(distance, FEET_PER_MILE * 100) \o <<" ", "m", "i">>
         ELSE toFixed(distance, 100) \o <<" ", "f", "t">>

formatDistance(distance, metric) ==
    IF metric
    THEN IF distance >= METERS_PER_KM * NumOne
         THEN toFixed(distance, METERS_PER_KM * 100) \o <<" ", "k", "m">>
         ELSE toFixed(distance, 100) \o <<" ", "m">>
    ELSE IF distance >= FEET_PER_MILE * NumOne
         THEN toFixed(distance, FEET_PER_MILE * 100) \o <<" ", "m", "i">>
         ELSE toFixed(distance, 100) \o <<" ", "f", "t">>

---------------------------------------------------------------------------
(* Dashboard, MapView, AutoDetect, PricingPanel                            *)

MaxAreas == 2
MaxClock == 2

\* What the user traces with the polygon tool and with the polyline tool
PolygonPaths ==
    {<<Offset(0, 0), Offset(0, 3), Offset(2, 3), Offset(2, 0)>>,
     <<Offset(0, 0), Offset(2, 3), Offset(2, 0)>>}

PolylinePaths ==
    {<<Offset(0, 0), Offset(2, 3)>>,
     <<Offset(0, 0), Offset(0, 3), Offset(2, 3)>>}

\* mapViewRef.getBounds() of the loaded map
mapBounds == [ne |-> Offset(2, 3), sw |-> Offset(0, 0)]

\* The features /api/detect answers with (confidence in percent, estimatedArea
\* in Num, bounds in percent of the captured image)
DetectedFeatures ==
    <<[type |-> "lawn", confidence |-> 90, estimatedArea |-> 4505000,
       bounds |-> [top |-> 0, left |-> 0, width |-> 100, height |-> 100]],
      [type |-> "roof", confidence |-> 60, estimatedArea |-> 1200049,
       bounds |-> [top |-> 0, left |-> 0, width |-> 100, height |-> 50]]>>

featureToService(type) ==
    CASE type = "lawn" -> "lawn_care"
      [] type = "roof" -> "roofing"
      [] type = "driveway" -> "pressure_washing"
      [] type = "pool" -> "pool_area"
      [] type = "deck" -> "decking"
      [] type = "patio" -> "paving"
      [] type = "fence" -> "fencing"
      [] type = "garden" -> "landscaping"

ServiceChoices == {"fencing"}

Undefined == "undefined"

AppInit ==
    /\ areas = <<>>
    /\ renderedAreas = <<>>
    /\ isDrawing = FALSE
    /\ drawingMode = "area"
    /\ result = <<>>
    /\ selectedFeatures = {}
    /\ clock = 1

DEFAULT_MOBILIZATION_FEE == 200

\* null of localStorage.getItem and of useState<string | null>(null)
Null == "null"

\* PricingPanel's useState(true) and Dashboard's useState(DEFAULT_MOBILIZATION_FEE)
PanelInit ==
    /\ isMetric = TRUE
    /\ mobilizationFee = DEFAULT_MOBILIZATION_FEE * NumOne

\* AuthProvider and LoginForm as first rendered, in a browser that holds no
\* "mapquotey_auth" item
AuthInit ==
    /\ isAuthenticated = FALSE
    /\ isLoading = TRUE
    /\ authStored = Null
    /\ pin = <<"", "", "", "">>
    /\ timers = <<>>
    /\ event = [op |-> "render"]

\* ProjectsPanel as first rendered
\* The panel of a first visit: nothing is stored yet
ProjectsInit ==
    /\ projects = <<>>
    /\ activeProjectId = <<>>
    /\ queued = <<>>
    /\ storedProjects = <<>>

\* Dashboard useState([]) and PhotoUpload useState(null); no file selected yet
PhotosInit ==
    /\ photos = <<>>
    /\ selectedPhoto = <<>>
    /\ selections = <<>>

ComponentsInit == AppInit /\ PanelInit /\ AuthInit /\ ProjectsInit /\ PhotosInit

handleStartDrawing(mode) ==
    /\ drawingMode' = mode
    /\ isDrawing' = TRUE
    /\ UNCHANGED <<engineVars, panelVars, authVars, projectVars, photoVars,
                 areas, renderedAreas, result, selectedFeatures, clock>>

handleStopDrawing ==
    /\ isDrawing' = FALSE
    /\ UNCHANGED <<engineVars, panelVars, authVars, projectVars, photoVars,
                 areas, renderedAreas, drawingMode, result, selectedFeatures,
                 clock>>

\* Variant: the measurements taken before the last vertex was placed
NewDrawnAreaStale(prefix, type, points, now) ==
    [id |-> [prefix |-> prefix, n |-> now],
     type |-> type,
     points |-> points,
     measurements |-> getMeasurements(SubSeq(points, 1, Len(points) - 1)),
     serviceType |-> Undefined,
     pricePerUnit |-> <<>>]

\* The DrawnArea both completion handlers build from the traced path
NewDrawnArea(prefix, type, points, now) ==
    [id |-> [prefix |-> prefix, n |-> now],
     type |-> type,
     points |-> points,
     measurements |-> getMeasurements(points),
     serviceType |-> Undefined,
     pricePerUnit |-> <<>>]

\* The drawing manager offers the polygon tool while drawingMode is "area"
onPolygonComplete(points) ==
    /\ isDrawing /\ drawingMode = "area"
    /\ Len(areas) < MaxAreas /\ clock <= MaxClock
    /\ areas' = Append(renderedAreas,
                       NewDrawnArea("area", drawingMode, points, clock))
    /\ renderedAreas' = areas'
    /\ clock' = clock + 1
    /\ UNCHANGED <<engineVars, panelVars, authVars, projectVars, photoVars,
                 isDrawing, drawingMode, result, selectedFeatures>>

\* ... and the polyline tool while it is "trail"
onPolylineComplete(points) ==
    /\ isDrawing /\ drawingMode = "trail"
    /\ Len(areas) < MaxAreas /\ clock <= MaxClock
    /\ areas' = Append(renderedAreas,
                       NewDrawnArea("trail", "trail", points, clock))
    /\ renderedAreas' = areas'
    /\ clock' = clock + 1
    /\ UNCHANGED <<engineVars, panelVars, authVars, projectVars, photoVars,
                 isDrawing, drawingMode, result, selectedFeatures>>

\* handleDetect, once /api/detect has answered
handleDetect ==
    /\ result' = DetectedFeatures
    /\ selectedFeatures' =
           {i \in 0..(Len(DetectedFeatures) - 1) :
               At(DetectedFeatures, i).confidence >= 70}
    /\ UNCHANGED <<engineVars, panelVars, authVars, projectVars, photoVars,
                 areas, renderedAreas, isDrawing, drawingMode, clock>>

toggleFeature(index) ==
    /\ result # <<>>
    /\ selectedFeatures' =
           IF index \in selectedFeatures THEN selectedFeatures \ {index}
           ELSE selectedFeatures \cup {index}
    /\ UNCHANGED <<engineVars, panelVars, authVars, projectVars, photoVars,
                 areas, renderedAreas, isDrawing, drawingMode, result, clock>>

boundsToPolygon(bounds, mb) ==
    LET ne == mb.ne
        sw == mb.sw
        latRange == ne.lat - sw.lat
        lngRange == ne.lng - sw.lng
        top == ne.lat - ((bounds.top * latRange) \div 100)
        bottom == ne.lat - (((bounds.top + bounds.height) * latRange) \div 100)
        left == sw.lng + ((bounds.left * lngRange) \div 100)
        right == sw.lng + (((bounds.left + bounds.width) * lngRange) \div 100)
    IN  <<[lat |-> top, lng |-> left], [lat |-> top, lng |-> right],
          [lat |-> bottom, lng |-> right], [lat |-> bottom, lng |-> left]>>

\* The DrawnArea applySelectedFeatures builds for result.features[index]
DetectedArea(feature, index, now) ==
    LET points == boundsToPolygon(feature.bounds, mapBounds)
        measurements == getMeasurements(points)
    IN  [id |-> [prefix |-> "ai", n |-> now + index],
         type |-> "area",
         points |-> points,
         measurements |->
             [measurements EXCEPT
                 !.area = feature.estimatedArea,
                 !.areaFt = MulScaled(feature.estimatedArea, SQFT_PER_SQM, 4)],
         serviceType |-> featureToService(feature.type),
         pricePerUnit |-> <<>>]

RECURSIVE NewAreas(_, _, _)
NewAreas(features, index, now) ==
    IF index >= Len(features) THEN <<>>
    ELSE IF index \notin selectedFeatures THEN NewAreas(features, index + 1, now)
    ELSE <<DetectedArea(At(features, index), index, now)>>
             \o NewAreas(features, index + 1, now)

applySelectedFeatures ==
    /\ result # <<>>
    /\ Len(areas) + Cardinality(selectedFeatures) <= MaxAreas
    /\ clock <= MaxClock
    /\ areas' = renderedAreas \o NewAreas(result, 0, clock)
    /\ renderedAreas' = areas'
    /\ result' = <<>>
    /\ clock' = clock + Len(result)
    /\ UNCHANGED <<engineVars, panelVars, authVars, projectVars, photoVars,
                 isDrawing, drawingMode, selectedFeatures>>

\* Variant: the update is not rendered before the next event is handled
handleUpdateAreaNotRendered(areaId, updates) ==
    /\ areas' = [k \in 1..Len(areas) |->
                    IF areas[k].id = areaId
                    THEN [f \in DOMAIN areas[k] \cup DOMAIN updates |->
                             IF f \in DOMAIN updates THEN updates[f] ELSE areas[k][f]]
                    ELSE areas[k]]
    /\ UNCHANGED <<engineVars, panelVars, authVars, projectVars, photoVars,
                 renderedAreas, isDrawing, drawingMode, result,
                 selectedFeatures, clock>>

\* prev.map((area) => (area.id === areaId ? { ...area, ...updates } : area))
handleUpdateArea(areaId, updates) ==
    /\ areas' = [k \in 1..Len(areas) |->
                    IF areas[k].id = areaId
                    THEN [f \in DOMAIN areas[k] \cup DOMAIN updates |->
                             IF f \in DOMAIN updates THEN updates[f] ELSE areas[k][f]]
                    ELSE areas[k]]
    /\ renderedAreas' = areas'
    /\ UNCHANGED <<engineVars, panelVars, authVars, projectVars, photoVars,
                 isDrawing, drawingMode, result, selectedFeatures, clock>>

\* PricingPanel: the service select and the custom price input of one area
selectService(k, service) ==
    handleUpdateArea(areas[k].id, [serviceType |-> service, pricePerUnit |-> <<>>])

RECURSIVE Filter(_, _)
Filter(s, areaId) ==
    IF s = <<>> THEN <<>>
    ELSE IF Head(s).id # areaId THEN <<Head(s)>> \o Filter(Tail(s), areaId)
    ELSE Filter(Tail(s), areaId)

\* prev.filter((area) => area.id !== areaId)
handleDeleteArea(areaId) ==
    /\ areas' = Filter(areas, areaId)
    /\ renderedAreas' = areas'
    /\ UNCHANGED <<engineVars, panelVars, authVars, projectVars, photoVars,
                 isDrawing, drawingMode, result, selectedFeatures, clock>>

handleClearAllAreas ==
    /\ areas # <<>>
    /\ areas' = <<>>
    /\ renderedAreas' = areas'
    /\ UNCHANGED <<engineVars, panelVars, authVars, projectVars, photoVars,
                 isDrawing, drawingMode, result, selectedFeatures, clock>>

Init ==
    /\ ComponentsInit
    /\ input = <<>> /\ call = "none" /\ ret = 0 /\ thrown = FALSE /\ log = {}

Next ==
    \/ \E mode \in {"area", "trail"} : handleStartDrawing(mode)
    \/ handleStopDrawing
    \/ \E points \in PolygonPaths : onPolygonComplete(points)
    \/ \E points \in PolylinePaths : onPolylineComplete(points)
    \/ handleDetect
    \/ \E index \in 0..(Len(DetectedFeatures) - 1) : toggleFeature(index)
    \/ applySelectedFeatures
    \/ \E k \in 1..Len(areas), service \in ServiceChoices : selectService(k, service)
    \/ \E k \in 1..Len(areas) : handleDeleteArea(areas[k].id)
    \/ handleClearAllAreas

Spec == Init /\ [][Next]_vars

---------------------------------------------------------------------------
(* Engine calls on bounded inputs                                          *)

MaxPoints == 4

\* Three clicks along one straight line, in either order along it
CollinearTriples ==
    UNION {{<<Offset(0, 0), Offset(d[1], d[2]), Offset(3 * d[1], 3 * d[2])>>,
            <<Offset(0, 0), Offset(3 * d[1], 3 * d[2]), Offset(d[1], d[2])>>} :
           d \in {<<1, 1>>, <<1, 2>>, <<2, 3>>, <<0, 1>>}}

\* A square of one grid step (0.0000899 degree, about 10 m) a side with its
\* south-west corner at sw, traced in either direction
Square(sw) ==
    LET nw == [lat |-> sw.lat + GridStep, lng |-> sw.lng]
        ne == [lat |-> sw.lat + GridStep, lng |-> sw.lng + GridStep]
        se == [lat |-> sw.lat, lng |-> sw.lng + GridStep]
    IN  {<<sw, nw, ne, se>>, <<sw, se, ne, nw>>, <<ne, se, sw, nw>>}

\* ... on the equator: north of it at two longitudes, and south of it
EquatorSquares ==
    Square([lat |-> 0, lng |-> 0]) \cup Square([lat |-> 0, lng |-> 100 * DegOne])
        \cup Square([lat |-> -GridStep, lng |-> 0])

PointLists ==
    UNION {[1..n -> SamplePoints] : n \in 0..MaxPoints} \cup CollinearTriples
        \cup EquatorSquares

EngineInit ==
    /\ ComponentsInit
    /\ input \in PointLists
    /\ call = "none"
    /\ ret = 0
    /\ thrown = FALSE
    /\ log = {}

CallPerimeter ==
    /\ call = "none"
    /\ call' = "calculatePerimeter"
    /\ thrown' = calculatePerimeterThrows(input)
    /\ ret' = IF thrown' THEN 0 ELSE calculatePerimeter(input)
    /\ UNCHANGED <<input, log, appVars, panelVars, authVars, projectVars,
                   photoVars>>

CallArea ==
    /\ call = "none"
    /\ call' = "calculatePolygonArea"
    /\ thrown' = calculatePolygonAreaThrows(input)
    /\ ret' = IF thrown' THEN 0 ELSE calculatePolygonArea(input)
    /\ UNCHANGED <<input, log, appVars, panelVars, authVars, projectVars,
                   photoVars>>

CallMeasurements ==
    /\ call = "none"
    /\ call' = "getMeasurements"
    /\ thrown' = (calculatePolygonAreaThrows(input) \/ calculatePerimeterThrows(input))
    /\ ret' = IF thrown' THEN 0 ELSE getMeasurements(input)
    /\ UNCHANGED <<input, log, appVars, panelVars, authVars, projectVars,
                   photoVars>>

EngineNext == CallPerimeter \/ CallArea \/ CallMeasurements

SpecEngine == EngineInit /\ [][EngineNext]_vars

\* calculateDistance on pairs of valid points: the extremes of the valid
\* range, the equator, and the neighbourhood of the map's default centre.
\* A pole is paired with itself only: the cosine of its latitude is below
\* what the fixed-point product resolves.
Pole(lat, lng) == [lat |-> lat * 90 * DegOne, lng |-> lng * 10 * DegOne]

PointClusters ==
    {KnownPoints \cup {[lat |-> defaultCenter.lat + 10000, lng |-> defaultCenter.lng]},
     {[lat |-> 0, lng |-> 0], [lat |-> 0, lng |-> GridStep],
      [lat |-> GridStep, lng |-> GridStep], [lat |-> GridStep, lng |-> 0],
      [lat |-> 1, lng |-> 0], [lat |-> DegOne \div 10000, lng |-> 0]},
     {[lat |-> 60 * DegOne, lng |-> 10 * DegOne],
      [lat |-> 61 * DegOne, lng |-> 11 * DegOne]},
     {Pole(1, 0)}, {Pole(1, 10)}, {Pole(1, 18)}, {Pole(-1, 0)}, {Pole(-1, -18)},
     {[lat |-> 0, lng |-> 180 * DegOne], [lat |-> 0, lng |-> 180 * DegOne - GridStep]}}

ValidPairs == UNION {c \X c : c \in PointClusters}

DistanceInit ==
    /\ ComponentsInit
    /\ input \in ValidPairs
    /\ call = "none"
    /\ ret = 0
    /\ thrown = FALSE
    /\ log = {}

CallDistance ==
    /\ call = "none"
    /\ call' = "calculateDistance"
    /\ thrown' = FALSE
    /\ ret' = calculateDistance(input[1], input[2])
    /\ UNCHANGED <<input, log, appVars, panelVars, authVars, projectVars,
                   photoVars>>

SpecDistance == DistanceInit /\ [][CallDistance]_vars

\* formatDistance on distances at, next to and away from the two thresholds

FormatDistances ==
    {whole * NumOne + part :
        whole \in {0, 999, METERS_PER_KM, 1500, FEET_PER_MILE, 7920},
        part \in {-51, -50, -1, 0, 1, 49, 50, 1234}}
        \cup {-1500 * NumOne}

FormatInit ==
    /\ ComponentsInit
    /\ input \in [distance : FormatDistances, isMetric : BOOLEAN]
    /\ call = "none"
    /\ ret = 0
    /\ thrown = FALSE
    /\ log = {}

CallFormatDistance ==
    /\ call = "none"
    /\ call' = "formatDistance"
    /\ thrown' = FALSE
    /\ ret' = formatDistance(input.distance, input.isMetric)
    /\ UNCHANGED <<input, log, appVars, panelVars, authVars, projectVars,
                   photoVars>>

SpecFormat == FormatInit /\ [][CallFormatDistance]_vars

\* Calls one after another on one array that the caller keeps

CallInputs ==
    PolygonPaths \cup PolylinePaths \cup CollinearTriples
        \cup {<<>>, <<Offset(0, 0)>>, <<Offset(0, 0), Offset(0, 0)>>}

\* Variant: the path closed in place, points.push(points[0])
ArgumentAfterClosing(points) ==
    IF points = <<>> THEN points ELSE Append(points, points[1])

\* The caller's array once a call is over: the engine assigns to no element
\* and calls only length, index reads, reduce and map on it
ArgumentAfterCall(points) == points

EngineThrows(op, points) ==
    CASE op = "calculateDistance" -> FALSE
      [] op = "calculatePerimeter" -> calculatePerimeterThrows(points)
      [] op = "calculatePolygonArea" -> calculatePolygonAreaThrows(points)
      [] op = "getMeasurements" ->
             calculatePolygonAreaThrows(points) \/ calculatePerimeterThrows(points)

EngineReturns(op, points) ==
    CASE op = "calculateDistance" -> calculateDistance(points[1], points[2])
      [] op = "calculatePerimeter" -> calculatePerimeter(points)
      [] op = "calculatePolygonArea" -> calculatePolygonArea(points)
      [] op = "getMeasurements" -> getMeasurements(points)

CallsInit ==
    /\ ComponentsInit
    /\ input \in CallInputs
    /\ call = "none"
    /\ ret = 0
    /\ thrown = FALSE
    /\ log = {}

\* One more call; calculateDistance is given the first two points
Invoke(op) ==
    /\ op = "calculateDistance" => Len(input) >= 2
    /\ call' = op
    /\ thrown' = EngineThrows(op, input)
    /\ ret' = IF thrown' THEN 0 ELSE EngineReturns(op, input)
    /\ input' = ArgumentAfterCall(input)
    /\ log' = log \cup {[op |-> op, before |-> input, after |-> input',
                          thrown |-> thrown',
                          result |-> IF op = "getMeasurements" /\ ~thrown'
                                     THEN ret' ELSE [value |-> ret']]}
    /\ UNCHANGED <<appVars, panelVars, authVars, projectVars, photoVars>>

CallsNext ==
    \E op \in {"calculateDistance", "calculatePerimeter", "calculatePolygonArea",
               "getMeasurements"} : Invoke(op)

SpecCalls == CallsInit /\ [][CallsNext]_vars

---------------------------------------------------------------------------
(* lib/services, PricingPanel, Dashboard.calculateTotal                    *)

\* SERVICES, the prices in hundredths of a dollar per square metre / foot
SERVICES ==
    <<[id |-> "lawn_care", pricePerSqM |-> 250, pricePerSqFt |-> 23],
      [id |-> "pressure_washing", pricePerSqM |-> 800, pricePerSqFt |-> 74],
      [id |-> "concreting", pricePerSqM |-> 8500, pricePerSqFt |-> 790],
      [id |-> "decking", pricePerSqM |-> 25000, pricePerSqFt |-> 2323],
      [id |-> "roofing", pricePerSqM |-> 6500, pricePerSqFt |-> 604],
      [id |-> "fencing", pricePerSqM |-> 12000, pricePerSqFt |-> 1115],
      [id |-> "landscaping", pricePerSqM |-> 4500, pricePerSqFt |-> 418],
      [id |-> "paving", pricePerSqM |-> 7500, pricePerSqFt |-> 697],
      [id |-> "pool_area", pricePerSqM |-> 15000, pricePerSqFt |-> 1394],
      [id |-> "custom", pricePerSqM |-> 0, pricePerSqFt |-> 0]>>

\* SERVICES.find((s) => s.id === id) finds one
HasService(id) == \E i \in 1..Len(SERVICES) : SERVICES[i].id = id

\* ... and the one it finds: the first with that id
getServiceById(id) ==
    SERVICES[CHOOSE i \in 1..Len(SERVICES) :
                 /\ SERVICES[i].id = id
                 /\ \A j \in 1..(i - 1) : SERVICES[j].id # id]

\* !area.serviceType: undefined, or the "" of the "Select service..." option
NoServiceType(area) == area.serviceType = Undefined \/ area.serviceType = ""

\* measurement (Num) * price (hundredths) -> dollars (Num)
Times(measurement, price) == MulScaled(measurement, price, 2)

\* area.enabled === false; an area that was never toggled has no such field
IsDisabled(area) == "enabled" \in DOMAIN area /\ area.enabled = FALSE

\* Variant: the override tested for truthiness, so that a custom price of 0
\* falls back to the service's default price
AreaPriceTruthyOverride(area, metric) ==
    IF NoServiceType(area) THEN 0
    ELSE IF ~HasService(area.serviceType) THEN 0
    ELSE IF area.pricePerUnit # <<>> /\ area.pricePerUnit # <<0>>
         THEN IF metric
              THEN Times(area.measurements.area, area.pricePerUnit[1])
              ELSE Times(area.measurements.areaFt, area.pricePerUnit[1])
    ELSE IF metric
         THEN Times(area.measurements.area,
                    getServiceById(area.serviceType).pricePerSqM)
         ELSE Times(area.measurements.areaFt,
                    getServiceById(area.serviceType).pricePerSqFt)

\* PricingPanel.calculateAreaPrice, in the unit system `metric`
AreaPrice(area, metric) ==
    IF NoServiceType(area) THEN 0
    ELSE IF ~HasService(area.serviceType) THEN 0
    ELSE IF area.pricePerUnit # <<>>
         THEN IF metric
              THEN Times(area.measurements.area, area.pricePerUnit[1])
              ELSE Times(area.measurements.areaFt, area.pricePerUnit[1])
    ELSE IF metric
         THEN Times(area.measurements.area,
                    getServiceById(area.serviceType).pricePerSqM)
         ELSE Times(area.measurements.areaFt,
                    getServiceById(area.serviceType).pricePerSqFt)

calculateAreaPrice(area) == AreaPrice(area, isMetric)

\* areas.reduce((sum, area) => sum + calculateAreaPrice(area), 0)
RECURSIVE PanelReduce(_, _)
PanelReduce(list, sum) ==
    IF list = <<>> THEN sum
    ELSE PanelReduce(Tail(list), sum + calculateAreaPrice(Head(list)))

subtotal == PanelReduce(areas, 0)

total == subtotal + mobilizationFee

\* The reducer of Dashboard.calculateTotal
RECURSIVE QuoteReduce(_, _)
QuoteReduce(list, sum) ==
    IF list = <<>> THEN sum
    ELSE LET area == Head(list)
         IN  IF NoServiceType(area) THEN QuoteReduce(Tail(list), sum)
             ELSE IF ~HasService(area.serviceType) THEN QuoteReduce(Tail(list), sum)
             ELSE LET price ==
                          IF area.pricePerUnit # <<>>
                          THEN Times(area.measurements.area, area.pricePerUnit[1])
                          ELSE Times(area.measurements.area,
                                     getServiceById(area.serviceType).pricePerSqM)
                  IN  QuoteReduce(Tail(list), sum + price)

calculateTotal == QuoteReduce(areas, 0) + mobilizationFee

\* ProjectsPanel.calculateProjectTotal
RECURSIVE calculateProjectTotal(_)
calculateProjectTotal(list) ==
    IF list = <<>> THEN 0
    ELSE LET area == Head(list)
             rest == Tail(list)
         IN  IF IsDisabled(area) \/ NoServiceType(area)
             THEN calculateProjectTotal(rest)
             ELSE IF ~HasService(area.serviceType) THEN calculateProjectTotal(rest)
             ELSE IF area.pricePerUnit # <<>>
                  THEN Times(area.measurements.area, area.pricePerUnit[1])
                           + calculateProjectTotal(rest)
                  ELSE Times(area.measurements.area,
                             getServiceById(area.serviceType).pricePerSqM)
                           + calculateProjectTotal(rest)

\* The checkbox of an area in the pricing panel: on unless enabled is false
toggleEnabled(k) ==
    handleUpdateArea(areas[k].id, [enabled |-> IsDisabled(areas[k])])

\* Options of the service select: "Select service..." and two of SERVICES
ServiceOptions == {"", "fencing", "lawn_care"}

\* The custom price input: parseFloat of the text, undefined when it is empty
CustomPrices == {<<>>, <<0>>, <<1000>>}

setPricePerUnit(k, price) ==
    /\ ~NoServiceType(areas[k])
    /\ handleUpdateArea(areas[k].id, [pricePerUnit |-> price])

\* setIsMetric(!isMetric)
setIsMetric ==
    /\ isMetric' = ~isMetric
    /\ UNCHANGED <<engineVars, appVars, mobilizationFee, authVars,
                   projectVars, photoVars>>

\* What parseFloat makes of the prompt's answer, <<>> for NaN
FeeAnswers == {<<>>, <<0>>, <<350 * NumOne>>}

\* onMobilizationChange(parseFloat(newFee) || 0), when the prompt was not cancelled
onMobilizationChange(parsed) ==
    /\ mobilizationFee' = IF parsed = <<>> THEN 0 ELSE parsed[1]
    /\ UNCHANGED <<engineVars, appVars, isMetric, authVars, projectVars,
                   photoVars>>

\* Lists AutoDetect hands to onAreasDetected, [...existingAreas, ...newAreas]:
\* a drawn polygon; a polygon and a trail; a polygon and the detected lawn
QuotedAreaLists ==
    {<<NewDrawnArea("area", "area",
                    <<Offset(0, 0), Offset(2, 3), Offset(2, 0)>>, 1)>>,
     <<NewDrawnArea("area", "area",
                    <<Offset(0, 0), Offset(0, 3), Offset(2, 3), Offset(2, 0)>>, 1),
       NewDrawnArea("trail", "trail", <<Offset(0, 0), Offset(2, 3)>>, 2)>>,
     <<NewDrawnArea("area", "area",
                    <<Offset(0, 0), Offset(2, 3), Offset(2, 0)>>, 1),
       DetectedArea(DetectedFeatures[1], 0, 2)>>}

\* Dashboard.handleAreasDetected: setAreas(detectedAreas)
handleAreasDetected(detectedAreas) ==
    /\ areas' = detectedAreas
    /\ renderedAreas' = areas'
    /\ UNCHANGED <<engineVars, panelVars, authVars, projectVars, photoVars,
                   isDrawing, drawingMode, result, selectedFeatures, clock>>

PricingNext ==
    \/ \E detectedAreas \in QuotedAreaLists : handleAreasDetected(detectedAreas)
    \/ \E k \in 1..Len(areas), service \in ServiceOptions : selectService(k, service)
    \/ \E k \in 1..Len(areas), price \in CustomPrices : setPricePerUnit(k, price)
    \/ \E k \in 1..Len(areas) : toggleEnabled(k)
    \/ setIsMetric
    \/ \E parsed \in FeeAnswers : onMobilizationChange(parsed)
    \/ \E k \in 1..Len(areas) : handleDeleteArea(areas[k].id)

SpecPricing == Init /\ [][PricingNext]_vars

---------------------------------------------------------------------------
(* AuthContext, Home, LoginForm                                            *)

MaxTimers == 1

\* A string is the sequence of its characters
MASTER_PIN == <<"1", "9", "9", "1">>

Digits == {"0", "1", "2", "3", "4", "5", "6", "7", "8", "9"}

\* Variant: any four digits open the door
AcceptsAnyFourDigits(candidate) ==
    Len(candidate) = 4 /\ \A i \in 1..4 : candidate[i] \in Digits

\* pin === MASTER_PIN
Accepts(candidate) == candidate = MASTER_PIN

\* What AuthProvider and Home put on the screen
Screen ==
    IF isLoading THEN "spinner"
    ELSE IF ~isAuthenticated THEN "LoginForm"
    ELSE "Dashboard"

EmptyPin == <<"", "", "", "">>

\* A page load: AuthProvider and LoginForm render with their initial state;
\* localStorage is what the last visit left
render ==
    /\ isAuthenticated' = FALSE
    /\ isLoading' = TRUE
    /\ pin' = EmptyPin
    /\ timers' = <<>>
    /\ event' = [op |-> "render"]
    /\ UNCHANGED <<engineVars, appVars, panelVars, projectVars, photoVars,
                   authStored>>

\* AuthProvider's mount effect
mountEffect ==
    /\ isLoading
    /\ isAuthenticated' = (IF authStored = "true" THEN TRUE ELSE isAuthenticated)
    /\ isLoading' = FALSE
    /\ event' = [op |-> "mountEffect"]
    /\ UNCHANGED <<engineVars, appVars, panelVars, projectVars, photoVars,
                   authStored, pin, timers>>

\* array.join(""): the boxes' characters in order
RECURSIVE Join(_)
Join(boxes) ==
    IF boxes = <<>> THEN <<>>
    ELSE IF Head(boxes) = "" THEN Join(Tail(boxes))
    ELSE <<Head(boxes)>> \o Join(Tail(boxes))

\* LoginForm.handleChange(index, value), value the new text of the box
handleChange(index, value) ==
    /\ Screen = "LoginForm"
    /\ Len(timers) < MaxTimers
    /\ IF \E i \in 1..Len(value) : value[i] \notin Digits
       THEN UNCHANGED <<pin, timers>>
       ELSE LET last == IF value = <<>> THEN "" ELSE value[Len(value)]
                newPin == [pin EXCEPT ![index + 1] = last]
            IN  /\ pin' = newPin
                /\ timers' = IF index = 3 /\ value # <<>>
                             THEN Append(timers, Join(SubSeq(newPin, 1, 3) \o <<last>>))
                             ELSE timers
    /\ event' = [op |-> "handleChange"]
    /\ UNCHANGED <<engineVars, appVars, panelVars, projectVars, photoVars,
                   isAuthenticated, isLoading, authStored>>

\* LoginForm.handlePaste, pastedData the clipboard text cut to four characters
handlePaste(pastedData) ==
    /\ Screen = "LoginForm"
    /\ Len(timers) < MaxTimers
    /\ IF pastedData = <<>> \/ \E i \in 1..Len(pastedData) : pastedData[i] \notin Digits
       THEN UNCHANGED <<pin, timers>>
       ELSE /\ pin' = SubSeq(pastedData \o EmptyPin, 1, 4)
            /\ timers' = IF Len(pastedData) = 4 THEN Append(timers, pastedData)
                         ELSE timers
    /\ event' = [op |-> "handlePaste"]
    /\ UNCHANGED <<engineVars, appVars, panelVars, projectVars, photoVars,
                   isAuthenticated, isLoading, authStored>>

\* LoginForm.handleSubmit(pinToCheck) with AuthProvider.login inlined;
\* pinToCheck is <<>> when the button calls it without an argument
handleSubmit(pinToCheck) ==
    LET fullPin == IF pinToCheck # <<>> THEN pinToCheck ELSE Join(pin)
    IN  IF Len(fullPin) # 4
        THEN /\ event' = [op |-> "handleSubmit"]
             /\ UNCHANGED <<isAuthenticated, authStored, pin>>
        ELSE IF Accepts(fullPin)
        THEN /\ isAuthenticated' = TRUE
             /\ authStored' = "true"
             /\ event' = [op |-> "login", pin |-> fullPin, returned |-> TRUE]
             /\ UNCHANGED pin
        ELSE /\ event' = [op |-> "login", pin |-> fullPin, returned |-> FALSE]
             /\ pin' = (IF Screen = "LoginForm" THEN EmptyPin ELSE pin)
             /\ UNCHANGED <<isAuthenticated, authStored>>

\* The Access Dashboard button, disabled while a box is empty
clickSubmit ==
    /\ Screen = "LoginForm"
    /\ \A i \in 1..4 : pin[i] # ""
    /\ handleSubmit(<<>>)
    /\ UNCHANGED <<engineVars, appVars, panelVars, projectVars, photoVars,
                   isLoading, timers>>

\* A pending setTimeout(() => handleSubmit(fullPin), 100) fires
timerFires ==
    /\ timers # <<>>
    /\ ~isLoading
    /\ handleSubmit(Head(timers))
    /\ timers' = Tail(timers)
    /\ UNCHANGED <<engineVars, appVars, panelVars, projectVars, photoVars,
                   isLoading>>

\* The dashboard's logout button: AuthProvider.logout; LoginForm mounts afresh
logout ==
    /\ Screen = "Dashboard"
    /\ isAuthenticated' = FALSE
    /\ authStored' = Null
    /\ pin' = EmptyPin
    /\ event' = [op |-> "logout"]
    /\ UNCHANGED <<engineVars, appVars, panelVars, projectVars, photoVars,
                   isLoading, timers>>

\* What the user types into a box and what the clipboard holds
Typed == {<<>>, <<"1">>, <<"9">>, <<"a">>}

Pasted == {<<"1", "9", "9", "1">>, <<"1", "9", "9", "0">>, <<"1", "9", "9">>,
           <<"1", "9", "a", "1">>}

AuthNext ==
    \/ render
    \/ mountEffect
    \/ \E index \in 0..3, value \in Typed : handleChange(index, value)
    \/ \E pastedData \in Pasted : handlePaste(pastedData)
    \/ clickSubmit
    \/ timerFires
    \/ logout

SpecAuth == Init /\ [][AuthNext]_vars

---------------------------------------------------------------------------
(* ProjectsPanel                                                           *)

MaxSaves == 3

\* A project an earlier visit saved, as JSON.parse gives it back
SavedProject(address, time) ==
    [id |-> [prefix |-> "project", n |-> time],
     address |-> address,
     center |-> defaultCenter,
     zoom |-> 18,
     areas |-> <<>>,
     createdAt |-> time,
     updatedAt |-> time]

\* Project lists of earlier visits: every address at most once
StoredProjectLists ==
    {<<>>,
     <<SavedProject("1 Main St", 0)>>,
     <<SavedProject("2 High St", 0), SavedProject("1 Main St", -1)>>}

\* JSON.stringify leaves out the properties of an area that are undefined
StringifyArea(area) ==
    [f \in {g \in DOMAIN area :
                /\ ~(g = "serviceType" /\ area[g] = Undefined)
                /\ ~(g = "pricePerUnit" /\ area[g] = <<>>)} |-> area[f]]

\* JSON.stringify(projects); the text is kept as the value JSON.parse makes
\* of it
JSONStringify(list) ==
    [i \in 1..Len(list) |->
        [list[i] EXCEPT !.areas = [k \in 1..Len(@) |-> StringifyArea(@[k])]]]

\* What localStorage["mapquotey_projects"] can hold when the page is opened
\* again: no item, or the text an earlier visit wrote
StoredItems == {<<>>} \cup {<<JSONStringify(list)>> : list \in StoredProjectLists}

\* The state in which a returning visitor's panel mounts
InitReturning ==
    /\ AppInit /\ PanelInit /\ AuthInit /\ PhotosInit
    /\ projects = <<>>
    /\ activeProjectId = <<>>
    /\ queued = <<>>
    /\ storedProjects \in StoredItems
    /\ input = <<>> /\ call = "none" /\ ret = 0 /\ thrown = FALSE /\ log = {}

\* The load effect, run once when the panel has mounted: setProjects(parsed)
\* takes effect with the next render
loadEffect ==
    /\ event.op = "render"
    /\ queued' = (IF storedProjects # <<>> THEN <<storedProjects[1]>> ELSE <<>>)
    /\ event' = [op |-> "loadEffect"]
    /\ UNCHANGED <<engineVars, appVars, panelVars, photoVars, projects,
                   activeProjectId,
                   storedProjects,
                   isAuthenticated, isLoading, authStored, pin, timers>>

\* The save effect: after the first render and after each render in which
\* projects is another array
saveEffect ==
    /\ event.op \in {"loadEffect", "rerender"}
    /\ storedProjects' = <<JSONStringify(projects)>>
    /\ event' = [op |-> "saveEffect"]
    /\ UNCHANGED <<engineVars, appVars, panelVars, photoVars, projects,
                   activeProjectId,
                   queued,
                   isAuthenticated, isLoading, authStored, pin, timers>>

\* The render the load effect's setProjects asked for
rerender ==
    /\ event.op = "saveEffect"
    /\ queued # <<>>
    /\ projects' = queued[1]
    /\ queued' = <<>>
    /\ event' = [op |-> "rerender"]
    /\ UNCHANGED <<engineVars, appVars, panelVars, photoVars, activeProjectId,
                   storedProjects,
                   isAuthenticated, isLoading, authStored, pin, timers>>

\* The mount effects have run and no render is waiting: clicks are handled
Mounted ==
    /\ event.op \notin {"render", "loadEffect", "rerender"}
    /\ queued = <<>>

\* Variant: the search skips the first project
findIndexAfterFirst(list, address) ==
    IF \E i \in 2..Len(list) : list[i].address = address
    THEN (CHOOSE i \in 2..Len(list) :
              /\ list[i].address = address
              /\ \A j \in 2..(i - 1) : list[j].address # address) - 1
    ELSE -1

\* projects.findIndex(p => p.address === currentAddress), 0-based, -1 for none
findIndex(list, address) ==
    IF \E i \in 1..Len(list) : list[i].address = address
    THEN (CHOOSE i \in 1..Len(list) :
              /\ list[i].address = address
              /\ \A j \in 1..(i - 1) : list[j].address # address) - 1
    ELSE -1

\* handleSaveProject with the props the dashboard passes; currentCenter is
\* <<>> when undefined and <<center>> otherwise; now is the time of the click
handleSaveProject(currentAddress, currentCenter, currentZoom, currentAreas, now) ==
    IF currentAddress = "" \/ currentCenter = <<>>
    THEN /\ event' = [op |-> "alert"]
         /\ UNCHANGED <<projects, activeProjectId, storedProjects>>
    ELSE LET existingIndex == findIndex(projects, currentAddress)
             newProject == [id |-> [prefix |-> "project", n |-> now],
                            address |-> currentAddress,
                            center |-> currentCenter[1],
                            zoom |-> currentZoom,
                            areas |-> currentAreas,
                            createdAt |-> now,
                            updatedAt |-> now]
         IN  /\ event' = [op |-> "save", address |-> currentAddress,
                          center |-> currentCenter[1], zoom |-> currentZoom,
                          areas |-> currentAreas, now |-> now]
             /\ IF existingIndex >= 0
                THEN /\ projects' =
                            [projects EXCEPT ![existingIndex + 1] =
                                [@ EXCEPT !.areas = currentAreas,
                                          !.center = currentCenter[1],
                                          !.zoom = currentZoom,
                                          !.updatedAt = now]]
                     /\ activeProjectId' = <<projects'[existingIndex + 1].id>>
                ELSE /\ projects' = <<newProject>> \o projects
                     /\ activeProjectId' = <<newProject.id>>
             /\ storedProjects' = <<JSONStringify(projects')>>

\* The Save button: the clock gives the time and moves on
clickSave(currentAddress, currentCenter, currentZoom, currentAreas) ==
    /\ Mounted
    /\ clock <= MaxSaves
    /\ handleSaveProject(currentAddress, currentCenter, currentZoom,
                         currentAreas, clock)
    /\ clock' = clock + 1
    /\ UNCHANGED <<engineVars, panelVars, photoVars, areas, renderedAreas,
                   isDrawing, drawingMode, result,
                   selectedFeatures, queued, isAuthenticated, isLoading,
                   authStored, pin, timers>>

RECURSIVE FilterProjects(_, _)
FilterProjects(list, projectId) ==
    IF list = <<>> THEN <<>>
    ELSE IF Head(list).id # projectId
         THEN <<Head(list)>> \o FilterProjects(Tail(list), projectId)
    ELSE FilterProjects(Tail(list), projectId)

\* Variant: the delete leaves activeProjectId as it is
handleDeleteProjectKeepingActive(projectId, confirmed) ==
    /\ Mounted
    /\ IF confirmed
       THEN /\ projects' = FilterProjects(projects, projectId)
            /\ storedProjects' = <<JSONStringify(projects')>>
       ELSE UNCHANGED <<projects, storedProjects>>
    /\ event' = [op |-> "delete"]
    /\ UNCHANGED <<engineVars, appVars, panelVars, photoVars, queued,
                   activeProjectId,
                   isAuthenticated, isLoading, authStored, pin, timers>>

\* handleDeleteProject, confirmed or not
handleDeleteProject(projectId, confirmed) ==
    /\ Mounted
    /\ IF confirmed
       THEN /\ projects' = FilterProjects(projects, projectId)
            /\ activeProjectId' =
                   (IF activeProjectId = <<projectId>> THEN <<>> ELSE activeProjectId)
            /\ storedProjects' = <<JSONStringify(projects')>>
       ELSE UNCHANGED <<projects, activeProjectId, storedProjects>>
    /\ event' = [op |-> "delete"]
    /\ UNCHANGED <<engineVars, appVars, panelVars, photoVars, queued,
                   isAuthenticated, isLoading, authStored, pin, timers>>

handleSelectProject(project) ==
    /\ Mounted
    /\ activeProjectId' = <<project.id>>
    /\ event' = [op |-> "select"]
    /\ UNCHANGED <<engineVars, appVars, panelVars, photoVars, projects, queued,
                   storedProjects,
                   isAuthenticated, isLoading, authStored, pin, timers>>

handleNewProject ==
    /\ Mounted
    /\ activeProjectId' = <<>>
    /\ event' = [op |-> "new"]
    /\ UNCHANGED <<engineVars, appVars, panelVars, photoVars, projects, queued,
                   storedProjects,
                   isAuthenticated, isLoading, authStored, pin, timers>>

\* The props the dashboard can pass: its address, map centre, zoom and areas
Addresses == {"", "1 Main St", "2 High St"}

Centers == {<<>>, <<defaultCenter>>, <<Offset(1, 1)>>}

Zooms == {18, 19}

CurrentAreaLists ==
    {<<>>, <<NewDrawnArea("area", "area",
                          <<Offset(0, 0), Offset(2, 3), Offset(2, 0)>>, 1)>>}

ProjectsNext ==
    \/ loadEffect
    \/ saveEffect
    \/ rerender
    \/ \E currentAddress \in Addresses, currentCenter \in Centers,
          currentZoom \in Zooms, currentAreas \in CurrentAreaLists :
           clickSave(currentAddress, currentCenter, currentZoom, currentAreas)
    \/ \E k \in 1..Len(projects), confirmed \in BOOLEAN :
           handleDeleteProject(projects[k].id, confirmed)
    \/ \E k \in 1..Len(projects) : handleSelectProject(projects[k])
    \/ handleNewProject

SpecProjects == InitReturning /\ [][ProjectsNext]_vars

---------------------------------------------------------------------------
(* PhotoUpload                                                             *)

MaxFiles == 2
MaxSelections == 2

\* The MIME types of the files dropped or picked, split at the slash
FileTypes == {<<"image", "png">>, <<"text", "plain">>}

\* file.type.startsWith("image/")
IsImage(file) == file.type[1] = "image"

\* The FileLists of a drop or of the file input
FileLists ==
    UNION {[1..n -> {[type |-> t] : t \in FileTypes}] : n \in 1..MaxFiles}

\* The readers handleFileSelect starts: one per image file
Readers(files) == {i \in 1..Len(files) : IsImage(files[i])}

\* handleFileSelect(files), files not null: the call keeps the photos prop of
\* its render, its own newPhotos and the readers it has started
handleFileSelect(files) ==
    /\ Len(selections) < MaxSelections
    /\ selections' = Append(selections,
                            [files |-> files,
                             photos |-> photos,
                             newPhotos |-> <<>>,
                             pending |-> Readers(files)])
    /\ UNCHANGED <<engineVars, appVars, panelVars, authVars, projectVars,
                   photos, selectedPhoto>>

\* newPhotos.filter((p) => p.preview)
RECURSIVE FilterPreview(_)
FilterPreview(list) ==
    IF list = <<>> THEN <<>>
    ELSE IF Head(list).preview # "" THEN <<Head(list)>> \o FilterPreview(Tail(list))
    ELSE FilterPreview(Tail(list))

\* reader.onload of file i of call s: the readers answer in any order
onload(s, i) ==
    LET sel == selections[s]
        photo == [id |-> [prefix |-> "photo", s |-> s, i |-> i],
                  file |-> sel.files[i],
                  preview |-> "data:"]
        newPhotos == Append(sel.newPhotos, photo)
    IN  /\ i \in sel.pending
        /\ selections' = [selections EXCEPT ![s].newPhotos = newPhotos,
                                            ![s].pending = @ \ {i}]
        /\ IF Len(newPhotos) = Len(sel.files)
           THEN photos' = sel.photos \o FilterPreview(newPhotos)
           ELSE UNCHANGED photos
        /\ UNCHANGED <<engineVars, appVars, panelVars, authVars, projectVars,
                       selectedPhoto>>

RECURSIVE FilterPhotos(_, _)
FilterPhotos(list, photoId) ==
    IF list = <<>> THEN <<>>
    ELSE IF Head(list).id # photoId
         THEN <<Head(list)>> \o FilterPhotos(Tail(list), photoId)
    ELSE FilterPhotos(Tail(list), photoId)

handleDeletePhoto(photoId) ==
    /\ photos' = FilterPhotos(photos, photoId)
    /\ selectedPhoto' =
           (IF selectedPhoto # <<>> /\ selectedPhoto[1].id = photoId
            THEN <<>> ELSE selectedPhoto)
    /\ UNCHANGED <<engineVars, appVars, panelVars, authVars, projectVars,
                   selections>>

\* A click on a thumbnail, and the close button of the enlarged photo
setSelectedPhoto(photo) ==
    /\ selectedPhoto' = photo
    /\ UNCHANGED <<engineVars, appVars, panelVars, authVars, projectVars,
                   photos, selections>>

PhotosNext ==
    \/ \E files \in FileLists : handleFileSelect(files)
    \/ \E s \in 1..Len(selections), i \in 1..MaxFiles : onload(s, i)
    \/ \E k \in 1..Len(photos) : handleDeletePhoto(photos[k].id)
    \/ \E k \in 1..Len(photos) : setSelectedPhoto(<<photos[k]>>)
    \/ selectedPhoto # <<>> /\ setSelectedPhoto(<<>>)

SpecPhotos == Init /\ [][PhotosNext]_vars

---------------------------------------------------------------------------
(* Properties                                                              *)

Rotate(points, k) ==
    [i \in 1..Len(points) |-> points[((i - 1 + k) % Len(points)) + 1]]

Reverse(points) == [i \in 1..Len(points) |-> points[Len(points) + 1 - i]]

\* distance(points[n], points[n + 1 mod length]) summed over the first n points
RECURSIVE EdgeSum(_, _)
EdgeSum(points, n) ==
    IF n = 0 THEN 0
    ELSE EdgeSum(points, n - 1)
             + Distance(points[n], points[(n % Len(points)) + 1])

\* |u - v| of two-limb numbers
WDist(u, v) == IF WLeq(u, v) THEN WSub(v, u) ELSE WSub(u, v)

\* |feet - metric * factor| <= tolerance, for fields in Num with two decimals,
\* a factor in 1e-k and a tolerance in 1e-(k+2)
Within(feet, metric, factor, k, tolerance) ==
    WLeq(WDist(WMul(feet \div 100, 10^k), WMul(metric \div 100, factor)),
         <<0, tolerance>>)

Measured == call = "getMeasurements"

C3_MeasurementsAreDerived ==
    \A k \in 1..Len(areas) :
        areas[k].measurements = getMeasurements(areas[k].points)

\* C3, amended: in every reachable state every area drawn with the polygon or
\* the polyline tool has measurements equal to getMeasurements of its points;
\* an area applied from a detected feature has the perimeter and perimeterFt
\* of getMeasurements of its points, the feature's estimatedArea as area, and
\* that estimate times 10.7639, unrounded, as areaFt.
C3_MeasurementsDerivedOrEstimated ==
    \A k \in 1..Len(areas) :
        LET area == areas[k]
            measured == getMeasurements(area.points)
        IN  IF area.id.prefix = "ai"
            THEN /\ area.measurements.perimeter = measured.perimeter
                 /\ area.measurements.perimeterFt = measured.perimeterFt
                 /\ \E i \in 1..Len(DetectedFeatures) :
                        /\ area.points =
                               boundsToPolygon(DetectedFeatures[i].bounds, mapBounds)
                        /\ area.measurements.area = DetectedFeatures[i].estimatedArea
                 /\ area.measurements.areaFt =
                        MulScaled(area.measurements.area, SQFT_PER_SQM, 4)
            ELSE area.measurements = measured

\* A detected area and a drawn area side by side, the drawn one updated
C3_Witness ==
    /\ Len(areas) = 2
    /\ \E k \in 1..2 : areas[k].id.prefix = "ai"
    /\ \E k \in 1..2 :
           /\ areas[k].id.prefix \in {"area", "trail"}
           /\ areas[k].serviceType = "fencing"
           /\ areas[k].measurements.perimeter > 0

\* C4 as the specification states it: every trail, whatever its number of
\* points, has area 0 and areaFt 0.
C4_TrailsHaveNoArea ==
    \A k \in 1..Len(areas) :
        areas[k].type = "trail" =>
            /\ areas[k].measurements.area = 0
            /\ areas[k].measurements.areaFt = 0

\* A trail of three points that do not lie on a line
C4_Witness ==
    \E k \in 1..Len(areas) :
        /\ areas[k].type = "trail"
        /\ Len(areas[k].points) = 3

\* C5: for every list of n >= 2 points calculatePerimeter is the sum of the n
\* edge distances distance(points[i], points[(i+1) mod n]), closing edge
\* included; for exactly 2 points it is 2 * distance(p1, p2).
C5_PerimeterIsClosedLoop ==
    (call = "calculatePerimeter" /\ Len(input) >= 2) =>
        /\ ret = EdgeSum(input, Len(input))
        /\ Len(input) = 2 => ret = 2 * Distance(input[1], input[2])

\* The perimeter of three or more points whose last differs from the first
C5_Witness ==
    /\ call = "calculatePerimeter"
    /\ Len(input) >= 3
    /\ input[Len(input)] # input[1]
    /\ ret > EdgeSum(input, Len(input) - 1)

\* C6: calculatePerimeter is exactly 0 for the empty list and for every
\* single-point list.
C6_PerimeterOfFewPoints ==
    (call = "calculatePerimeter" /\ Len(input) < 2) => ret = 0

\* The perimeter of a single point
C6_Witness == call = "calculatePerimeter" /\ Len(input) = 1 /\ ret = 0

\* C7: calculatePolygonArea is exactly 0 for every list of fewer than 3
\* points.
C7_AreaOfFewPoints ==
    (call = "calculatePolygonArea" /\ Len(input) < 3) => ret = 0

\* The area of two different points
C7_Witness ==
    /\ call = "calculatePolygonArea"
    /\ Len(input) = 2
    /\ input[1] # input[2]
    /\ ret = 0

C10_DistanceToSelf ==
    (call = "calculateDistance" /\ input[1] = input[2]) => ret = 0

\* The distance of a pole to itself
C10_Witness ==
    /\ call = "calculateDistance"
    /\ input[1] = input[2]
    /\ input[1].lat = 90 * DegOne
    /\ ret = 0

\* C11: for all valid points p1 and p2, calculateDistance(p1, p2) equals
\* calculateDistance(p2, p1).
C11_DistanceSymmetric ==
    call = "calculateDistance" => calculateDistance(input[2], input[1]) = ret

\* The distance between two points a degree apart in both coordinates
C11_Witness ==
    /\ call = "calculateDistance"
    /\ input[1].lat # input[2].lat
    /\ input[1].lng # input[2].lng
    /\ ret > 1000 * NumOne

SamePoint == input[1].lat = input[2].lat /\ input[1].lng = input[2].lng

Collinear(points) ==
    (points[2].lng - points[1].lng) * (points[3].lat - points[1].lat)
        = (points[3].lng - points[1].lng) * (points[2].lat - points[1].lat)

CollinearTriangle ==
    call = "calculatePolygonArea" /\ Len(input) = 3 /\ Collinear(input)

RoundedTo2(rounded, value) ==
    /\ rounded % 100 = 0
    /\ rounded - value <= 50
    /\ value - rounded < 50

\* C14: for every point list the metric fields of getMeasurements are
\* calculatePolygonArea(points) and calculatePerimeter(points), each rounded
\* to 2 decimal places.
C14_MetricFieldsRounded ==
    Measured =>
        /\ RoundedTo2(ret.area, calculatePolygonArea(input))
        /\ RoundedTo2(ret.perimeter, calculatePerimeter(input))

\* Measurements of a polygon whose area and perimeter both had digits to round
C14_Witness ==
    /\ Measured
    /\ Len(input) >= 3
    /\ ret.area > 0
    /\ ret.area # calculatePolygonArea(input)
    /\ ret.perimeter # calculatePerimeter(input)

\* An engine operation has run on a shape of at most two points
PartialShape ==
    /\ call \in {"calculatePerimeter", "calculatePolygonArea", "getMeasurements"}
    /\ Len(input) <= 2

ZeroMeasurements == [area |-> 0, perimeter |-> 0, areaFt |-> 0, perimeterFt |-> 0]

\* C15 as the specification states it: for the empty list, every single-point
\* list and every two-point list the engine operations complete normally and
\* return zero.
C15_PartialShapesReturnZero ==
    PartialShape =>
        /\ ~thrown
        /\ ret = IF call = "getMeasurements" THEN ZeroMeasurements ELSE 0

\* C15, amended: for the empty list, every single-point list and every
\* two-point list the engine operations complete normally, without an
\* exception; calculatePolygonArea returns 0; calculatePerimeter returns 0
\* for the empty and the single-point lists and 2 * distance(p1, p2), not 0,
\* for a two-point list; getMeasurements returns area and areaFt 0 and the
\* perimeter fields of that perimeter.
C15_PartialShapesCompleteNormally ==
    PartialShape =>
        /\ ~thrown
        /\ call = "calculatePolygonArea" => ret = 0
        /\ call = "calculatePerimeter" =>
               ret = IF Len(input) = 2 THEN 2 * Distance(input[1], input[2]) ELSE 0
        /\ call = "getMeasurements" =>
               /\ ret.area = 0 /\ ret.areaFt = 0
               /\ Len(input) < 2 => ret = ZeroMeasurements
               /\ Len(input) = 2 =>
                      RoundedTo2(ret.perimeter, 2 * Distance(input[1], input[2]))

\* Measurements of two different points: no exception, no area, a perimeter
C15_Witness ==
    /\ call = "getMeasurements"
    /\ Len(input) = 2
    /\ ~thrown
    /\ ret.area = 0
    /\ ret.perimeter > 0

RECURSIVE NumeralValue(_, _)
NumeralValue(chars, sofar) ==
    IF chars = <<>> THEN sofar
    ELSE IF Head(chars) = "." THEN NumeralValue(Tail(chars), sofar)
    ELSE NumeralValue(Tail(chars),
             10 * sofar + (CHOOSE d \in 0..9 : DigitChars[d + 1] = Head(chars)))

\* text is a numeral with exactly two decimals, a space and the unit, and
\* the numeral is value / perHundredth hundredths rounded to the nearest
Shows(text, value, perHundredth, unit) ==
    LET n == Len(text) - Len(unit) - 1
        signed == SubSeq(text, 1, n)
        numeral == IF value < 0 THEN Tail(signed) ELSE signed
    IN  /\ n >= 4
        /\ SubSeq(text, n + 1, Len(text)) = <<" ">> \o unit
        /\ value < 0 => Head(signed) = "-"
        /\ numeral[Len(numeral) - 2] = "."
        /\ \A k \in (1..Len(numeral)) \ {Len(numeral) - 2} :
               \E d \in 0..9 : DigitChars[d + 1] = numeral[k]
        /\ 2 * Abs(NumeralValue(numeral, 0) * perHundredth - Abs(value)) <= perHundredth

\* C17: formatDistance uses the larger unit exactly from the threshold on:
\* metric output is kilometres (value / 1000, 2 decimals) iff value >= 1000
\* and metres with 2 decimals otherwise; imperial output is miles
\* (value / 5280, 2 decimals) iff value >= 5280 and feet with 2 decimals
\* otherwise; 999 gives "999.00 m" and 1500 gives "1.50 km".
C17_FormatDistanceThresholds ==
    call = "formatDistance" =>
        LET value == input.distance
        IN  /\ input.isMetric =>
                  IF value >= 1000 * NumOne
                  THEN Shows(ret, value, 1000 * 100, <<"k", "m">>)
                  ELSE Shows(ret, value, 100, <<"m">>)
            /\ ~input.isMetric =>
                  IF value >= 5280 * NumOne
                  THEN Shows(ret, value, 5280 * 100, <<"m", "i">>)
                  ELSE Shows(ret, value, 100, <<"f", "t">>)
            /\ (input.isMetric /\ value = 999 * NumOne) =>
                  ret = <<"9", "9", "9", ".", "0", "0", " ", "m">>
            /\ (input.isMetric /\ value = 1500 * NumOne) =>
                  ret = <<"1", ".", "5", "0", " ", "k", "m">>

\* Exactly 1000 metres, shown in kilometres
C17_Witness ==
    /\ call = "formatDistance"
    /\ input.isMetric
    /\ input.distance = 1000 * NumOne
    /\ ret = <<"1", ".", "0", "0", " ", "k", "m">>


\* The areas that count: every one not toggled off
RECURSIVE EnabledAreas(_)
EnabledAreas(list) ==
    IF list = <<>> THEN <<>>
    ELSE IF IsDisabled(Head(list)) THEN EnabledAreas(Tail(list))
    ELSE <<Head(list)>> \o EnabledAreas(Tail(list))

RECURSIVE PriceSum(_, _)
PriceSum(list, metric) ==
    IF list = <<>> THEN 0
    ELSE AreaPrice(Head(list), metric) + PriceSum(Tail(list), metric)

\* C18: an area that is toggled off is excluded from pricing: the panel's
\* subtotal and total, the quote total and a saved project's total are the
\* sum over the enabled areas only (plus the mobilization fee for totals)
C18_DisabledAreasExcluded ==
    /\ subtotal = PriceSum(EnabledAreas(areas), isMetric)
    /\ total = PriceSum(EnabledAreas(areas), isMetric) + mobilizationFee
    /\ calculateTotal = PriceSum(EnabledAreas(areas), TRUE) + mobilizationFee
    /\ calculateProjectTotal(areas) = PriceSum(EnabledAreas(areas), TRUE)

C18_Witness ==
    /\ \E k \in 1..Len(areas) : IsDisabled(areas[k]) /\ AreaPrice(areas[k], TRUE) > 0
    /\ subtotal # PriceSum(EnabledAreas(areas), isMetric)
    /\ calculateTotal # PriceSum(EnabledAreas(areas), TRUE) + mobilizationFee
    /\ calculateProjectTotal(areas) < QuoteReduce(areas, 0)


\* C19: access is gated by the master PIN: the dashboard is on the screen
\* only while isAuthenticated is true; isAuthenticated becomes true, and the
\* stored flag is written, only by a login with the master PIN, or
\* isAuthenticated by the mount effect restoring that flag; a login with any
\* other pin returns false and leaves isAuthenticated and the flag unchanged
C19_AccessGatedByMasterPin ==
    /\ [](Screen = "Dashboard" => isAuthenticated)
    /\ [][/\ (~isAuthenticated /\ isAuthenticated') =>
                 \/ /\ event'.op = "login"
                    /\ event'.pin = <<"1", "9", "9", "1">>
                    /\ event'.returned
                 \/ event'.op = "mountEffect" /\ authStored = "true"
          /\ (authStored # "true" /\ authStored' = "true") =>
                 /\ event'.op = "login"
                 /\ event'.pin = <<"1", "9", "9", "1">>
          /\ (event'.op = "login" /\ event'.pin # <<"1", "9", "9", "1">>) =>
                 /\ ~event'.returned
                 /\ UNCHANGED <<isAuthenticated, authStored>>]_vars

\* A reload has brought back the session that a login with the PIN opened
C19_Witness ==
    /\ Screen = "Dashboard"
    /\ event.op = "mountEffect"
    /\ authStored = "true"


NoDuplicateAddresses(list) ==
    \A i, j \in 1..Len(list) : list[i].address = list[j].address => i = j

\* C20: projects are stored by address: the saved project list never holds two
\* projects with one address, and a save while a project with the current
\* address exists replaces that project's areas, center, zoom and updatedAt,
\* keeps its id and createdAt, and adds no project
C20_ProjectsStoredByAddress ==
    /\ [](NoDuplicateAddresses(projects))
    /\ [][(/\ event'.op = "save"
           /\ \E i \in 1..Len(projects) : projects[i].address = event'.address) =>
              /\ Len(projects') = Len(projects)
              /\ \A i \in 1..Len(projects) :
                     IF projects[i].address = event'.address
                     THEN /\ projects'[i].areas = event'.areas
                          /\ projects'[i].center = event'.center
                          /\ projects'[i].zoom = event'.zoom
                          /\ projects'[i].updatedAt = event'.now
                          /\ projects'[i].id = projects[i].id
                          /\ projects'[i].createdAt = projects[i].createdAt
                          /\ projects'[i].address = projects[i].address
                     ELSE projects'[i] = projects[i]]_vars

\* A stored project has been saved again with other areas, centre and zoom
C20_Witness ==
    /\ event.op = "save"
    /\ \E i \in 1..Len(projects) :
           /\ projects[i].address = event.address
           /\ projects[i].createdAt < projects[i].updatedAt
           /\ projects[i].createdAt <= 0
           /\ projects[i].areas # <<>>
           /\ projects[i].zoom = 19
    /\ Len(projects) = 2


\* The arithmetic mean of xs, floored to the Deg unit, taken from the
\* differences to the first element
RECURSIVE DiffSum(_, _)
DiffSum(xs, base) ==
    IF xs = <<>> THEN 0 ELSE (Head(xs) - base) + DiffSum(Tail(xs), base)

RefMean(xs) == xs[1] + (DiffSum(xs, xs[1]) \div Len(xs))

\* x_i and y_i of the i-th point (i counted from 0, modulo n) in metres (Num)
RefX(points, i) ==
    LET n == Len(points)
        meanLat == RefMean([k \in 1..n |-> points[k].lat])
        meanLng == RefMean([k \in 1..n |-> points[k].lng])
        perDegree == MulScaled(111320 * NumOne, MathCos(toRadians(meanLat)), 8)
    IN  MulScaled(points[(i % n) + 1].lng - meanLng, perDegree, 7)

RefY(points, i) ==
    LET n == Len(points)
        meanLat == RefMean([k \in 1..n |-> points[k].lat])
    IN  MulScaled(points[(i % n) + 1].lat - meanLat, 111320 * NumOne, 7)

\* sum over i in lo..hi of x_i * y_{i+1} - x_{i+1} * y_i
RECURSIVE RefCross(_, _, _)
RefCross(points, lo, hi) ==
    IF lo > hi THEN 0
    ELSE MulScaled(RefX(points, hi), RefY(points, hi + 1), 4)
             - MulScaled(RefX(points, hi + 1), RefY(points, hi), 4)
             + RefCross(points, lo, hi - 1)

ReferenceArea(points) == Abs(RefCross(points, 0, Len(points) - 1)) \div 2

\* C21: for every list of n >= 3 points calculatePolygonArea equals
\* |sum over i of (x_i * y_{i+1} - x_{i+1} * y_i)| / 2, indices modulo n, with
\* x_i = (lng_i - meanLng) * 111320 * cos(meanLat), y_i = (lat_i - meanLat) *
\* 111320 and meanLat, meanLng the arithmetic means of the coordinates
C21_AreaIsShoelaceReference ==
    (call = "calculatePolygonArea" /\ Len(input) >= 3) =>
        /\ ~thrown
        /\ ret = ReferenceArea(input)

\* The area of a quadrilateral that encloses something, the reference agreeing
C21_Witness ==
    /\ call = "calculatePolygonArea"
    /\ Len(input) = 4
    /\ ret > 100 * NumOne
    /\ ret = ReferenceArea(input)


\* C22: for a square at the equator whose corners are 0.0000899 degree apart
\* in latitude and longitude (a side of about 10 m) calculatePolygonArea is
\* within 1% of 100 square metres
C22_EquatorSquareArea ==
    (call = "calculatePolygonArea" /\ input \in EquatorSquares) =>
        /\ ~thrown
        /\ ret >= 99 * NumOne
        /\ ret <= 101 * NumOne

\* The area of the square north-east of (0, 0) has been taken
C22_Witness ==
    /\ call = "calculatePolygonArea"
    /\ input \in Square([lat |-> 0, lng |-> 0])
    /\ ret > 0


\* Meridians to move a pair of points to: Greenwich, its neighbour a grid step
\* east, 10 degrees east, the map's default centre, and the antimeridian
\* from either side
Meridians ==
    {0, GridStep, 10 * DegOne, defaultCenter.lng, 180 * DegOne, -180 * DegOne}

\* C23: for two points on one meridian calculateDistance depends on the two
\* latitudes only: moved to any other meridian, the pair is as far apart
C23_MeridianDistanceIgnoresLongitude ==
    (call = "calculateDistance" /\ input[1].lng = input[2].lng) =>
        \A lng \in Meridians :
            calculateDistance([lat |-> input[1].lat, lng |-> lng],
                              [lat |-> input[2].lat, lng |-> lng]) = ret

\* Two points of the default centre's neighbourhood, north and south of each
\* other on a meridian that is none of the above
C23_Witness ==
    /\ call = "calculateDistance"
    /\ input[1].lng = input[2].lng
    /\ input[1].lng \notin Meridians
    /\ input[1].lat # input[2].lat
    /\ ret > 10 * NumOne

\* C24: the length stored for a trail in measurements.perimeter is the open
\* path length, the sum of the distances between consecutive points, with no
\* edge from the last point back to the first.
C24_TrailPerimeterIsOpenPath ==
    \A k \in 1..Len(areas) :
        areas[k].type = "trail" =>
            areas[k].measurements.perimeter =
                Round2(calculatePerimeterOpenPath(areas[k].points))

\* A trail of two points, whose closing edge runs back over its only segment
C24_Witness ==
    \E k \in 1..Len(areas) :
        /\ areas[k].type = "trail"
        /\ Len(areas[k].points) = 2
        /\ areas[k].measurements.perimeter =
               Round2(2 * Distance(areas[k].points[1], areas[k].points[2]))

\* The default price of a service in one unit system, read off SERVICES
DefaultPrice(id, metric) ==
    LET service == CHOOSE s \in {SERVICES[i] : i \in 1..Len(SERVICES)} : s.id = id
    IN  IF metric THEN service.pricePerSqM ELSE service.pricePerSqFt

\* The area measurement of the selected unit system
UnitArea(area) ==
    IF isMetric THEN area.measurements.area ELSE area.measurements.areaFt

PanelPriceRule(area) ==
    /\ NoServiceType(area) => calculateAreaPrice(area) = 0
    /\ (~NoServiceType(area) /\ area.pricePerUnit # <<>>) =>
           calculateAreaPrice(area) = Times(UnitArea(area), area.pricePerUnit[1])
    /\ (~NoServiceType(area) /\ area.pricePerUnit = <<>>) =>
           calculateAreaPrice(area) =
               Times(UnitArea(area), DefaultPrice(area.serviceType, isMetric))

\* An area that gets a different service type has no override afterwards
ServiceChangeClearsOverride ==
    \A i \in 1..Len(areas), j \in 1..Len(areas') :
        (areas[i].id = areas'[j].id
            /\ areas[i].serviceType # areas'[j].serviceType) =>
        areas'[j].pricePerUnit = <<>>

\* C25: the panel prices an area at 0 while it has no service type, otherwise
\* at its area in the selected unit system times the custom price when one is
\* set (0 included) and times the service's default price for that unit
\* system when none is set; selecting a different service clears the override.
C25_PanelPriceRules ==
    /\ [](\A k \in 1..Len(areas) : PanelPriceRule(areas[k]))
    /\ [][ServiceChangeClearsOverride]_vars

\* Imperial units, a fencing area with the custom price 0 beside an area at
\* the default price of its service
C25_Witness ==
    /\ ~isMetric
    /\ \E k \in 1..Len(areas) :
           /\ areas[k].serviceType = "fencing"
           /\ areas[k].pricePerUnit = <<0>>
           /\ areas[k].measurements.areaFt > 0
           /\ calculateAreaPrice(areas[k]) = 0
    /\ \E k \in 1..Len(areas) :
           /\ areas[k].serviceType = "lawn_care"
           /\ areas[k].pricePerUnit = <<>>
           /\ calculateAreaPrice(areas[k]) > 0

\* C26: saved projects survive a reload: from the mount of the panel on, what
\* localStorage holds under "mapquotey_projects" is never replaced by an
\* empty list unless the user deletes a project, so that through the load
\* effect, the save effect and the re-render the stored projects stay stored.
C26_StoredProjectsSurviveReload ==
    [][(/\ storedProjects # <<>>
        /\ storedProjects[1] # <<>>
        /\ storedProjects' = <<JSONStringify(<<>>)>>) =>
       event'.op = "delete"]_vars

\* The save effect of the mount has run over two stored projects that the
\* load effect read and the next render is to show
C26_Witness ==
    /\ event.op = "saveEffect"
    /\ queued # <<>>
    /\ Len(queued[1]) = 2
    /\ projects = <<>>
    /\ storedProjects = <<JSONStringify(<<>>)>>

\* C27: after any sequence of save, select, delete and new-project operations
\* activeProjectId is null or the id of a project in the saved project list.
C27_ActiveProjectIsSaved ==
    \/ activeProjectId = <<>>
    \/ \E i \in 1..Len(projects) : projects[i].id = activeProjectId[1]

\* A project was deleted while another one, saved in this visit, is active
C27_Witness ==
    /\ event.op = "delete"
    /\ Len(projects) = 1
    /\ activeProjectId = <<projects[1].id>>
    /\ projects[1].createdAt > 0
    /\ storedProjects = <<JSONStringify(projects)>>

\* The image files of selection s
ImageFiles(s) == Readers(selections[s].files)

\* C28: every image file of a selection is added to the photo list: when the
\* last file read of a selection with at least one image completes, whether
\* or not it also held other files, onPhotosChange is given the photos of that
\* moment plus one new photo per selected image file, so that photos the user
\* removed while the reads were in flight are not put back.
C28_EverySelectedImageIsAdded ==
    [][\A s \in 1..Len(selections) :
           (selections[s].pending # {} /\ selections'[s].pending = {}) =>
               /\ photos' = photos \o selections'[s].newPhotos
               /\ {selections'[s].newPhotos[k].id.i :
                       k \in 1..Len(selections'[s].newPhotos)} = ImageFiles(s)
               /\ Len(selections'[s].newPhotos) = Cardinality(ImageFiles(s))]_vars

\* Both images of a second selection have been read and added behind the
\* photo of the first
C28_Witness ==
    /\ Len(selections) = 2
    /\ selections[2].pending = {}
    /\ Len(selections[2].newPhotos) = 2
    /\ Len(photos) = 3
    /\ photos[1].id.s = 1
    /\ photos[2].id.s = 2

\* C29: for the same areas and mobilization fee the TOTAL written into the
\* downloaded quote equals the total the pricing panel shows, in every panel
\* state, the imperial unit setting and areas with a custom price included.
C29_QuoteTotalIsPanelTotal == calculateTotal = total

\* Imperial units and an area with a custom price per square foot
C29_Witness ==
    /\ ~isMetric
    /\ \E k \in 1..Len(areas) :
           /\ ~NoServiceType(areas[k])
           /\ areas[k].pricePerUnit = <<1000>>
           /\ areas[k].measurements.areaFt > 0
    /\ total > calculateTotal

\* The step is a completed drawing: the list ends in an area or a trail that
\* carries the time of this step
CompletedDrawing ==
    /\ clock' = clock + 1
    /\ areas' # <<>>
    /\ areas'[Len(areas')].id.n = clock
    /\ areas'[Len(areas')].id.prefix \in {"area", "trail"}

=============================================================================
